---- MODULE Spec2Model ----
(***************************************************************************)
(* Model of the self-registering command / event-handler framework:        *)
(*   command.rs        SlashCommand, all_slash_commands,                   *)
(*                     register_global_slash_commands                      *)
(*   event_handler.rs  BotEventHandler, all_event_handlers,                *)
(*                     MainEventHandler::{message, ready,                  *)
(*                     interaction_create}                                 *)
(*   events/ready.rs   SlashReadyEvent::on_ready                           *)
(*   commands/ping.rs  PingCommand                                         *)
(*                                                                         *)
(* The two inventories are fixed at link time; Init chooses one build: the *)
(* modules of the repository (PingCommand, SlashReadyEvent) together with  *)
(* any further modules written against the two traits, in any link order.  *)
(* Every gateway event is handled by its own asynchronous call of a        *)
(* MainEventHandler method; each such call is a record of `tasks`, and     *)
(* every await point of the call is a separate step.                       *)
(*                                                                         *)
(* Specifications:                                                         *)
(*   Spec           every build, every kind of event                       *)
(*   SpecDispatch   every command build, command / other interactions      *)
(*   SpecBroadcast  every build, ready and message events                  *)
(*   SpecPing       the repository's own command set, every kind of event  *)
(***************************************************************************)
EXTENDS Naturals, Sequences, FiniteSets

VARIABLES
    commands,   \* inventory of &dyn SlashCommand, in link order
    handlers,   \* inventory of &dyn BotEventHandler, in link order
    remote,     \* the global command set held by the platform
    tasks       \* one record per event-handler call, in arrival order

vars == <<commands, handlers, remote, tasks>>

\* ---------------------------------------------------------------- bounds
MaxEvents == 2      \* gateway events received in one run

\* ------------------------------------------------------------ text values
\* A reply's content is the sequence of its Unicode code points.
\* "\u{1F3D3} Pong!"  (table-tennis emoji, space, P o n g !)
PongContent == <<127955, 32, 80, 111, 110, 103, 33>>
\* the same text without the emoji
PlainPongContent == <<80, 111, 110, 103, 33>>
EchoContent == <<101, 99, 104, 111>>

\* ------------------------------------------------------ command descriptors
\* impl SlashCommand for PingCommand: name, description, the default
\* options() (empty), an overriding register() that sets name and
\* description only, and run() replying PongContent.
PingCommandPlainReply ==
    [id |-> "PingCommand", name |-> "ping", description |-> "Replies pong!",
     options |-> <<>>, own_register |-> TRUE, reply |-> PlainPongContent]

PingCommand ==
    [id |-> "PingCommand", name |-> "ping", description |-> "Replies pong!",
     options |-> <<>>, own_register |-> TRUE, reply |-> PongContent]

\* Further implementors of the trait, using the default register():
\* a second command that also answers to "ping", and one whose name
\* differs from "ping" only by case and that declares an option.
OtherCommands ==
    { [id |-> "PingAgain", name |-> "ping", description |-> "Second ping",
       options |-> <<>>, own_register |-> FALSE, reply |-> EchoContent],
      [id |-> "UpperPing", name |-> "Ping", description |-> "Shouting ping",
       options |-> <<"text">>, own_register |-> FALSE, reply |-> EchoContent] }

AllCommands == {PingCommand} \cup OtherCommands

\* The names an interaction can carry.
Names == {"ping", "Ping", "pong"}

\* ------------------------------------------------------- handler descriptors
\* impl BotEventHandler for SlashReadyEvent overrides on_ready only.
SlashReadyEvent == [id |-> "SlashReadyEvent", sync |-> TRUE]

\* An implementor that keeps both default hooks.
OtherHandlers == { [id |-> "Quiet", sync |-> FALSE] }

AllHandlers == {SlashReadyEvent} \cup OtherHandlers

\* ------------------------------------------------------------- inventories
\* inventory::submit! adds each module's static instance exactly once;
\* the iteration order is fixed per build but unspecified.
RECURSIVE Perms(_)
Perms(S) ==
    IF S = {} THEN { <<>> }
    ELSE UNION { { <<x>> \o p : p \in Perms(S \ {x}) } : x \in S }

Builds(own, others) == UNION { Perms({own} \cup X) : X \in SUBSET others }

\* a collection that visits the inventory twice
all_slash_commands_twice == commands \o commands

\* all_slash_commands(): a fresh Vec of the inventory, in its order
all_slash_commands == commands

\* all_event_handlers(): a fresh Vec of the inventory, in its order
all_event_handlers == handlers

\* --------------------------------------------------------------- registration
\* SlashCommand::register (default) and PingCommand::register (override)
registerNoOptions(cmd) ==
    [name |-> cmd.name, description |-> cmd.description, options |-> <<>>]

register(cmd) ==
    IF cmd.own_register
    THEN [name |-> cmd.name, description |-> cmd.description,
          options |-> <<>>]
    ELSE [name |-> cmd.name, description |-> cmd.description,
          options |-> cmd.options]

\* the Vec<CreateCommand> built by register_global_slash_commands
CreateCommands(cmds) == [k \in 1..Len(cmds) |-> register(cmds[k])]

\* Command::set_global_commands: bulk overwrite of the global command set
set_global_commands_append(old, submitted) == old \o submitted

set_global_commands(old, submitted) == submitted

\* a command set left on the platform by an earlier deployment
StaleRemote ==
    << [name |-> "old", description |-> "Removed command", options |-> <<>>] >>

InitialRemotes == { <<>>, StaleRemote }

\* ------------------------------------------------------------------- events
\* ready and message events
BroadcastEvents ==
    { [kind |-> "ready", cmd |-> FALSE, name |-> ""],
      [kind |-> "message", cmd |-> FALSE, name |-> ""] }

\* Interaction::Command carrying a name, and any other Interaction variant
InteractionEvents ==
    { [kind |-> "interaction", cmd |-> FALSE, name |-> ""] }
    \cup { [kind |-> "interaction", cmd |-> TRUE, name |-> n] : n \in Names }

Events == BroadcastEvents \cup InteractionEvents

\* The call of a MainEventHandler method for event e.
\*   i        position in the Vec the for loop visits next
\*   pc       "loop"  at the head of the for loop
\*            "hook"  inside a hook that has been invoked
\*            "push"  awaiting Command::set_global_commands
\*            "run"   inside a command's run
\*            "send"  awaiting create_response
\*            "done"  the method has returned
\*   calls    hooks / runs invoked so far: registry position and payload
\*   ended    number of invoked hooks / runs that have returned
\*   busy     whether some call was inside a command's run when e arrived
\*   pushed   command lists submitted to the platform
\*   result   outcome of each submitted push
\*   replies  contents passed to create_response
\*   sent     outcome of each create_response
\*   out, err lines written to stdout / stderr
NewTask(e, id) ==
    [kind |-> e.kind, cmd |-> e.cmd, name |-> e.name, id |-> id,
     i |-> 1, pc |-> "loop", calls |-> <<>>, ended |-> 0, busy |-> FALSE,
     pushed |-> <<>>,
     result |-> <<>>, replies |-> <<>>, sent |-> <<>>, out |-> 0, err |-> 0]

Init ==
    /\ commands \in Builds(PingCommand, OtherCommands)
    /\ handlers \in Builds(SlashReadyEvent, OtherHandlers)
    /\ remote \in InitialRemotes
    /\ tasks = <<>>

\* the build of the repository's handler alone, against a fresh platform
InitDispatch ==
    /\ commands \in Builds(PingCommand, OtherCommands)
    /\ handlers = <<SlashReadyEvent>>
    /\ remote = <<>>
    /\ tasks = <<>>

\* the builds whose only command is the repository's PingCommand
InitPing ==
    /\ commands = <<PingCommand>>
    /\ handlers \in Builds(SlashReadyEvent, OtherHandlers)
    /\ remote \in InitialRemotes
    /\ tasks = <<>>

\* some call is inside a command's run
RunInProgress == \E t \in 1..Len(tasks) : tasks[t].pc \in {"run", "send"}

\* a gateway that hands over the next event only when every earlier call
\* of a MainEventHandler method has returned
DispatchSerial(e) ==
    /\ Len(tasks) < MaxEvents
    /\ \A t \in 1..Len(tasks) : tasks[t].pc = "done"
    /\ tasks' = Append(tasks, NewTask(e, Len(tasks) + 1))
    /\ UNCHANGED <<commands, handlers, remote>>

\* The gateway delivers an event and the matching method is called, as a
\* task of its own, whatever the earlier calls are doing.
Dispatch(e) ==
    /\ Len(tasks) < MaxEvents
    /\ tasks' = Append(tasks, [NewTask(e, Len(tasks) + 1)
                                 EXCEPT !.busy = RunInProgress])
    /\ UNCHANGED <<commands, handlers, remote>>

Upd(t, rec) == tasks' = [tasks EXCEPT ![t] = rec]

Invoked(T, pos) == Append(T.calls, [pos |-> pos, arg |-> T.id])

\* ------------------------------------------ MainEventHandler::message / ready
\* the for loop moves on to the next handler once the hook has returned
AfterHookSkip(i) == i + 2

AfterHook(i) == i + 1

\* a broadcast that starts the hooks of all handlers before awaiting any
BroadcastNextJoinAll(t) ==
    LET T == tasks[t]
        rest == [k \in 1..(Len(handlers) + 1 - T.i) |->
                    [pos |-> T.i + k - 1, arg |-> T.id]]
    IN
    /\ T.kind \in {"ready", "message"}
    /\ T.pc = "loop"
    /\ IF T.i > Len(handlers)
       THEN Upd(t, [T EXCEPT !.pc = "done"])
       ELSE Upd(t, [T EXCEPT !.pc = "hook", !.calls = @ \o rest])
    /\ UNCHANGED <<commands, handlers, remote>>

\* a broadcast that gives up on a hook that has not returned and moves on
BroadcastNextTimeout(t) ==
    LET T == tasks[t] IN
    /\ T.kind \in {"ready", "message"}
    /\ T.pc \in {"loop", "hook", "push"}
    /\ IF T.pc = "loop"
       THEN IF T.i > Len(handlers)
            THEN Upd(t, [T EXCEPT !.pc = "done"])
            ELSE Upd(t, [T EXCEPT !.pc = "hook", !.calls = Invoked(T, T.i)])
       ELSE Upd(t, [T EXCEPT !.pc = "loop", !.i = T.i + 1])
    /\ UNCHANGED <<commands, handlers, remote>>

\* for handler in all_event_handlers() { handler.on_xxx(&ctx, &ev).await; }
BroadcastNext(t) ==
    LET T == tasks[t] IN
    /\ T.kind \in {"ready", "message"}
    /\ T.pc = "loop"
    /\ IF T.i > Len(all_event_handlers)
       THEN Upd(t, [T EXCEPT !.pc = "done"])
       ELSE Upd(t, [T EXCEPT !.pc = "hook", !.calls = Invoked(T, T.i)])
    /\ UNCHANGED <<commands, handlers, remote>>

\* an on_message of the sync handler that registers the commands as well
DefaultHookResync(t) ==
    LET T == tasks[t] IN
    /\ T.pc = "hook"
    /\ ~(handlers[T.i].sync /\ T.kind = "ready")
    /\ IF handlers[T.i].sync
       THEN Upd(t, [T EXCEPT !.pc = "push", !.out = @ + 1,
                             !.pushed = Append(@, CreateCommands(commands))])
       ELSE Upd(t, [T EXCEPT !.pc = "loop", !.i = T.i + 1, !.ended = @ + 1])
    /\ UNCHANGED <<commands, handlers, remote>>

\* BotEventHandler::on_message / on_ready, default bodies: {}
DefaultHook(t) ==
    LET T == tasks[t] IN
    /\ T.pc = "hook"
    /\ ~(handlers[T.i].sync /\ T.kind = "ready")
    /\ Upd(t, [T EXCEPT !.pc = "loop", !.i = AfterHook(T.i), !.ended = @ + 1])
    /\ UNCHANGED <<commands, handlers, remote>>

\* an on_ready that registers the commands on the first ready event only
SyncSubmitOnce(t) ==
    LET T == tasks[t] IN
    /\ T.pc = "hook"
    /\ handlers[T.i].sync
    /\ T.kind = "ready"
    /\ IF \E u \in 1..Len(tasks) : tasks[u].pushed # <<>>
       THEN Upd(t, [T EXCEPT !.pc = "loop", !.i = T.i + 1, !.out = @ + 1,
                             !.ended = @ + 1])
       ELSE Upd(t, [T EXCEPT !.pc = "push", !.out = @ + 1,
                             !.pushed = Append(@, CreateCommands(commands))])
    /\ UNCHANGED <<commands, handlers, remote>>

\* an on_ready that starts the push in the background and returns at once
SyncSubmitDetached(t) ==
    LET T == tasks[t] IN
    /\ T.pc = "hook"
    /\ handlers[T.i].sync
    /\ T.kind = "ready"
    /\ Upd(t, [T EXCEPT !.pc = "loop", !.i = T.i + 1, !.out = @ + 1,
                        !.ended = @ + 1,
                        !.pushed = Append(@, CreateCommands(commands))])
    /\ UNCHANGED <<commands, handlers, remote>>

\* SlashReadyEvent::on_ready up to the await of set_global_commands:
\* println!("Bot ready as ..."), then register_global_slash_commands
\* builds the Vec<CreateCommand> and submits it.
SyncSubmit(t) ==
    LET T == tasks[t] IN
    /\ T.pc = "hook"
    /\ handlers[T.i].sync
    /\ T.kind = "ready"
    /\ Upd(t, [T EXCEPT !.pc = "push", !.out = @ + 1,
                        !.pushed = Append(@, CreateCommands(all_slash_commands))])
    /\ UNCHANGED <<commands, handlers, remote>>

Reverse(q) == [k \in 1..Len(q) |-> q[Len(q) + 1 - k]]

\* a successful push that hands the inventory back in another order
PushOkReorder(t) ==
    LET T == tasks[t] IN
    /\ T.pc = "push"
    /\ remote' = T.pushed[Len(T.pushed)]
    /\ Upd(t, [T EXCEPT !.pc = "loop", !.i = T.i + 1, !.out = @ + 1,
                        !.ended = @ + 1, !.result = Append(@, "ok")])
    /\ commands' = Reverse(commands)
    /\ handlers' = Reverse(handlers)

\* set_global_commands returned Ok: the else branch prints the success line
PushOk(t) ==
    LET T == tasks[t] IN
    /\ T.pc = "push"
    /\ remote' = set_global_commands(remote, T.pushed[Len(T.pushed)])
    /\ Upd(t, [T EXCEPT !.pc = "loop", !.i = AfterHook(T.i), !.out = @ + 1,
                        !.ended = @ + 1, !.result = Append(@, "ok")])
    /\ UNCHANGED <<commands, handlers>>

\* an on_ready that submits the list a second time after a failure
PushErrRetry(t) ==
    LET T == tasks[t] IN
    /\ T.pc = "push"
    /\ IF Len(T.pushed) < 2
       THEN Upd(t, [T EXCEPT !.err = @ + 1, !.result = Append(@, "err"),
                             !.pushed = Append(@, CreateCommands(commands))])
       ELSE Upd(t, [T EXCEPT !.pc = "loop", !.i = T.i + 1, !.err = @ + 1,
                             !.ended = @ + 1, !.result = Append(@, "err")])
    /\ UNCHANGED <<commands, handlers, remote>>

\* a failure of the push that ends the whole broadcast of the ready event
PushErrAbort(t) ==
    LET T == tasks[t] IN
    /\ T.pc = "push"
    /\ Upd(t, [T EXCEPT !.pc = "done", !.err = @ + 1, !.ended = @ + 1,
                        !.result = Append(@, "err")])
    /\ UNCHANGED <<commands, handlers, remote>>

\* set_global_commands returned Err: `?` hands it to on_ready, which
\* writes one line to stderr and returns
PushErr(t) ==
    LET T == tasks[t] IN
    /\ T.pc = "push"
    /\ Upd(t, [T EXCEPT !.pc = "loop", !.i = AfterHook(T.i), !.err = @ + 1,
                        !.ended = @ + 1, !.result = Append(@, "err")])
    /\ UNCHANGED <<commands, handlers, remote>>

\* ------------------------------------------ MainEventHandler::interaction_create
Lower(s) == IF s = "Ping" THEN "ping" ELSE s

\* cmd.name() == command_interaction.data.name
NameMatchesIgnoreCase(cmd, name) == Lower(cmd.name) = Lower(name)

NameMatches(cmd, name) == cmd.name = name

\* the for loop has no break: after run returns the scan continues
AfterRunBreak(i) == Len(commands) + 1

AfterRun(i) == i + 1

\* a scan that reports an interaction no command answered
InteractionNextWarn(t) ==
    LET T == tasks[t] IN
    /\ T.kind = "interaction"
    /\ T.pc = "loop"
    /\ IF ~T.cmd \/ T.i > Len(commands)
       THEN Upd(t, [T EXCEPT !.pc = "done",
                             !.err = IF T.cmd /\ T.calls = <<>> THEN @ + 1 ELSE @])
       ELSE IF commands[T.i].name = T.name
            THEN Upd(t, [T EXCEPT !.pc = "run", !.calls = Invoked(T, T.i)])
            ELSE Upd(t, [T EXCEPT !.i = @ + 1])
    /\ UNCHANGED <<commands, handlers, remote>>

\* a scan that runs every command for every interaction, whatever its
\* variant and name
InteractionNextRunAll(t) ==
    LET T == tasks[t] IN
    /\ T.kind = "interaction"
    /\ T.pc = "loop"
    /\ IF T.i > Len(commands)
       THEN Upd(t, [T EXCEPT !.pc = "done"])
       ELSE Upd(t, [T EXCEPT !.pc = "run", !.calls = Invoked(T, T.i)])
    /\ UNCHANGED <<commands, handlers, remote>>

\* if let Interaction::Command(..) = interaction { for cmd in .. { if .. } }
InteractionNext(t) ==
    LET T == tasks[t] IN
    /\ T.kind = "interaction"
    /\ T.pc = "loop"
    /\ IF ~T.cmd \/ T.i > Len(all_slash_commands)
       THEN Upd(t, [T EXCEPT !.pc = "done"])
       ELSE IF NameMatches(all_slash_commands[T.i], T.name)
            THEN Upd(t, [T EXCEPT !.pc = "run", !.calls = Invoked(T, T.i)])
            ELSE Upd(t, [T EXCEPT !.i = @ + 1])
    /\ UNCHANGED <<commands, handlers, remote>>

\* SlashCommand::run up to the await: PingCommand::run builds the
\* response message and calls create_response
Run(t) ==
    LET T == tasks[t] IN
    /\ T.pc = "run"
    /\ Upd(t, [T EXCEPT !.pc = "send",
                        !.replies = Append(@, commands[T.i].reply)])
    /\ UNCHANGED <<commands, handlers, remote>>

\* a run that sends its response once more when create_response fails
SentRetry(t) ==
    LET T == tasks[t] IN
    /\ T.pc = "send"
    /\ \E r \in {"ok", "err"} :
         IF r = "err" /\ Len(T.replies) = Len(T.calls)
         THEN Upd(t, [T EXCEPT !.pc = "run", !.sent = Append(@, r)])
         ELSE Upd(t, [T EXCEPT !.pc = "loop", !.i = T.i + 1,
                               !.ended = @ + 1, !.sent = Append(@, r)])
    /\ UNCHANGED <<commands, handlers, remote>>

\* create_response returned; `let _ =` drops the Result either way
Sent(t) ==
    LET T == tasks[t] IN
    /\ T.pc = "send"
    /\ \E r \in {"ok", "err"} :
         Upd(t, [T EXCEPT !.pc = "loop", !.i = AfterRun(T.i),
                          !.ended = @ + 1, !.sent = Append(@, r)])
    /\ UNCHANGED <<commands, handlers, remote>>

Next ==
    \/ \E e \in Events : Dispatch(e)
    \/ \E t \in 1..Len(tasks) : BroadcastNext(t)
    \/ \E t \in 1..Len(tasks) : DefaultHook(t)
    \/ \E t \in 1..Len(tasks) : SyncSubmit(t)
    \/ \E t \in 1..Len(tasks) : PushOk(t)
    \/ \E t \in 1..Len(tasks) : PushErr(t)
    \/ \E t \in 1..Len(tasks) : InteractionNext(t)
    \/ \E t \in 1..Len(tasks) : Run(t)
    \/ \E t \in 1..Len(tasks) : Sent(t)

\* a run in which the gateway delivers interactions only
NextDispatch ==
    \/ \E e \in InteractionEvents : Dispatch(e)
    \/ \E t \in 1..Len(tasks) : InteractionNext(t)
    \/ \E t \in 1..Len(tasks) : Run(t)
    \/ \E t \in 1..Len(tasks) : Sent(t)

\* a run in which the gateway delivers ready and message events only
NextBroadcast ==
    \/ \E e \in BroadcastEvents : Dispatch(e)
    \/ \E t \in 1..Len(tasks) : BroadcastNext(t)
    \/ \E t \in 1..Len(tasks) : DefaultHook(t)
    \/ \E t \in 1..Len(tasks) : SyncSubmit(t)
    \/ \E t \in 1..Len(tasks) : PushOk(t)
    \/ \E t \in 1..Len(tasks) : PushErr(t)

Spec == Init /\ [][Next]_vars

SpecDispatch == InitDispatch /\ [][NextDispatch]_vars

SpecBroadcast == Init /\ [][NextBroadcast]_vars

SpecPing == InitPing /\ [][Next]_vars

\* ================================================================ properties
TaskIds == 1..Len(tasks)

IsCommandInteraction(T) == T.kind = "interaction" /\ T.cmd

IsBroadcast(T) == T.kind \in {"ready", "message"}

\* registry positions of the commands whose name is exactly `name`
MatchPositions(name) == { k \in 1..Len(commands) : commands[k].name = name }

Min(S) == CHOOSE x \in S : \A y \in S : x <= y

RECURSIVE Ascending(_)
Ascending(S) == IF S = {} THEN <<>> ELSE <<Min(S)>> \o Ascending(S \ {Min(S)})

\* the calls a handler call must have made when it visits positions P in order
CallsAt(P, id) == [k \in 1..Len(P) |-> [pos |-> P[k], arg |-> id]]

IsPrefix(s, u) == Len(s) <= Len(u) /\ \A k \in 1..Len(s) : s[k] = u[k]

\* C1 (as stated): when two or more registered commands carry the
\* interaction's name, only the first of them in registry order is run.
C1_OnlyFirstMatchRuns ==
    \A t \in TaskIds :
        LET T == tasks[t] IN
        (IsCommandInteraction(T) /\ Cardinality(MatchPositions(T.name)) >= 2)
            => \A k \in 1..Len(T.calls) :
                   T.calls[k].pos = Min(MatchPositions(T.name))

\* C1 (amended): when two or more registered commands carry the
\* interaction's name, every one of them is run exactly once, in registry
\* order, each after the previous one has returned.
C1_EveryMatchRunsInOrder ==
    \A t \in TaskIds :
        LET T == tasks[t]
            all == CallsAt(Ascending(MatchPositions(T.name)), T.id)
        IN  (IsCommandInteraction(T) /\ Cardinality(MatchPositions(T.name)) >= 2)
                => /\ IsPrefix(T.calls, all)
                   /\ T.pc = "done" => T.calls = all

C1_Witness ==
    \E t \in TaskIds :
        /\ IsCommandInteraction(tasks[t])
        /\ Cardinality(MatchPositions(tasks[t].name)) >= 2
        /\ tasks[t].pc = "done"
        /\ Len(tasks[t].calls) = 2

\* C2: when exactly one registered command has exactly the interaction's
\* name, that command's run is invoked exactly once, with that
\* interaction's payload, and no other command is run.
C2_SingleMatchRunsOnce ==
    \A t \in TaskIds :
        LET T == tasks[t]
            M == MatchPositions(T.name)
        IN  (IsCommandInteraction(T) /\ Cardinality(M) = 1)
                => /\ IsPrefix(T.calls, <<[pos |-> Min(M), arg |-> t]>>)
                   /\ T.pc = "done" => T.calls = <<[pos |-> Min(M), arg |-> t]>>

C2_Witness ==
    \E t \in TaskIds :
        /\ IsCommandInteraction(tasks[t])
        /\ Cardinality(MatchPositions(tasks[t].name)) = 1
        /\ Len(commands) = 3
        /\ tasks[t].pc = "done"
        /\ Len(tasks[t].calls) = 1

\* C3: when no registered command has the interaction's name, no run is
\* invoked, no reply is emitted, nothing is written to stdout or stderr,
\* and the handling runs through the scan to its normal return.
C3_NoMatchSilentlyDropped ==
    \A t \in TaskIds :
        LET T == tasks[t] IN
        (IsCommandInteraction(T) /\ MatchPositions(T.name) = {})
            => /\ T.calls = <<>> /\ T.replies = <<>> /\ T.pushed = <<>>
               /\ T.out = 0 /\ T.err = 0
               /\ T.pc \in {"loop", "done"}
               /\ T.pc = "done" => T.i = Len(commands) + 1

C3_Witness ==
    \E t \in TaskIds :
        /\ IsCommandInteraction(tasks[t])
        /\ MatchPositions(tasks[t].name) = {}
        /\ tasks[t].pc = "done"

\* C4: one ready event (and likewise one message event) invokes the hook of
\* each of the N registered handlers exactly once, in registry order.
C4_HooksOnceInRegistryOrder ==
    \A t \in TaskIds :
        LET T == tasks[t]
            all == CallsAt([k \in 1..Len(handlers) |-> k], t)
        IN  IsBroadcast(T)
                => /\ IsPrefix(T.calls, all)
                   /\ T.pc = "done" => T.calls = all

C4_Witness ==
    /\ Len(handlers) = 2
    /\ \E t \in TaskIds : tasks[t].kind = "ready" /\ tasks[t].pc = "done"
                          /\ Len(tasks[t].calls) = 2
    /\ \E t \in TaskIds : tasks[t].kind = "message" /\ tasks[t].pc = "done"
                          /\ Len(tasks[t].calls) = 2

\* {name, description, options} of every registered command, in registry order
PublicRecords ==
    [k \in 1..Len(commands) |->
        [name |-> commands[k].name, description |-> commands[k].description,
         options |-> commands[k].options]]

PushSucceeded(T) == \E k \in 1..Len(T.result) : T.result[k] = "ok"

PushFailed(T) == \E k \in 1..Len(T.result) : T.result[k] = "err"

\* the step in which the push awaited by call t returns with outcome r
PushReturns(t, r) ==
    /\ t <= Len(tasks)
    /\ tasks[t].pc = "push"
    /\ tasks'[t].result = Append(tasks[t].result, r)

\* C5: once a push has succeeded the remote command set is exactly the
\* sequence of public records of list_commands(), one per command,
\* whatever the remote set held before.
C5_PushOverwritesRemote ==
    (\E t \in TaskIds : PushSucceeded(tasks[t])) => remote = PublicRecords

C5_Witness ==
    /\ \E t \in TaskIds : PushSucceeded(tasks[t])
    /\ \E k \in 1..Len(commands) : commands[k].options # <<>>
    /\ Len(remote) = 3

\* C6: every ready event, the second and later ones included, triggers
\* exactly one push, and nothing else pushes: the pushes made are as many
\* as the ready events handled.
C6_OnePushPerReadyEvent ==
    \A t \in TaskIds :
        LET T == tasks[t] IN
        /\ T.kind # "ready" => T.pushed = <<>>
        /\ T.kind = "ready" => /\ Len(T.pushed) <= 1
                               /\ T.pc = "done" => Len(T.pushed) = 1

C6_Witness ==
    /\ Len(tasks) >= 2
    /\ \A t \in 1..2 : /\ tasks[t].kind = "ready"
                       /\ tasks[t].pc = "done"
                       /\ Len(tasks[t].pushed) = 1

\* C7: a successful push made after an earlier successful push leaves the
\* remote command set as the earlier push left it.
C7_SecondPushLeavesRemote ==
    [][ \A t \in TaskIds :
          (PushReturns(t, "ok") /\ \E u \in TaskIds : PushSucceeded(tasks[u]))
              => remote' = remote ]_vars

C7_Witness ==
    /\ Len(tasks) >= 2
    /\ PushSucceeded(tasks[1])
    /\ PushSucceeded(tasks[2])
    /\ remote # <<>>

\* C8: with the single command ping registered, a ready event pushes
\* exactly the one record {ping, Replies pong!, []}, and a later command
\* interaction named "ping" invokes ping's run, which emits one reply
\* whose content is the emoji-prefixed Pong text.
C8_PingEndToEnd ==
    (Len(commands) = 1 /\ commands[1].id = "PingCommand")
        => \A t \in TaskIds :
             LET T == tasks[t] IN
             /\ (T.kind = "ready" /\ T.pc = "done")
                    => T.pushed = << << [name |-> "ping",
                                         description |-> "Replies pong!",
                                         options |-> <<>>] >> >>
             /\ (IsCommandInteraction(T) /\ T.name = "ping" /\ T.pc = "done")
                    => /\ T.calls = <<[pos |-> 1, arg |-> t]>>
                       /\ T.replies = << <<127955, 32, 80, 111, 110, 103, 33>> >>

C8_Witness ==
    /\ Len(commands) = 1
    /\ Len(tasks) = 2
    /\ tasks[1].kind = "ready" /\ tasks[1].pc = "done"
    /\ IsCommandInteraction(tasks[2]) /\ tasks[2].name = "ping"
    /\ tasks[2].pc = "done" /\ Len(tasks[2].replies) = 1

\* C9: a failed push leaves the remote command set as it was, writes
\* exactly one diagnostic, lets on_ready return to the broadcast loop, and
\* is not retried: the call that saw the failure submits nothing again.
C9_FailedPushLeavesRemoteStale ==
    /\ [][ \A t \in TaskIds :
             PushReturns(t, "err")
                 => /\ remote' = remote
                    /\ tasks'[t].err = tasks[t].err + 1
                    /\ tasks'[t].out = tasks[t].out
                    /\ tasks'[t].pushed = tasks[t].pushed
                    /\ tasks'[t].pc = "loop"
                    /\ tasks'[t].i = tasks[t].i + 1 ]_vars
    /\ [](\A t \in TaskIds :
             PushFailed(tasks[t])
                 => /\ Len(tasks[t].pushed) = 1
                    /\ tasks[t].err = 1
                    /\ tasks[t].pc \in {"loop", "hook", "done"})

C9_Witness ==
    \E t \in TaskIds :
        /\ PushFailed(tasks[t])
        /\ tasks[t].pc = "done"
        /\ remote = StaleRemote

\* C10: no step of any event handling changes list_commands() or
\* list_handlers(): both stay the sequences they were at the first dispatch.
C10_RegistriesNeverChange ==
    [][commands' = commands /\ handlers' = handlers]_vars

C10_Witness ==
    /\ Len(tasks) = 2
    /\ \A t \in TaskIds : tasks[t].pc = "done"
    /\ \E t \in TaskIds : PushSucceeded(tasks[t])
    /\ \E t \in TaskIds : tasks[t].replies # <<>>
    /\ Len(handlers) = 2

\* number of occurrences of d in the sequence q
Count(q, d) == Cardinality({ k \in 1..Len(q) : q[k] = d })

Range(q) == { q[k] : k \in 1..Len(q) }

\* C11: every descriptor submitted to an inventory appears exactly once in
\* the listing built from it, and the listing holds nothing else; the
\* repository's own PingCommand and SlashReadyEvent are among them.
C11_EachRegisteredListedOnce ==
    /\ \A d \in AllCommands :
         Count(all_slash_commands, d) = IF d \in Range(commands) THEN 1 ELSE 0
    /\ \A d \in AllHandlers :
         Count(all_event_handlers, d) = IF d \in Range(handlers) THEN 1 ELSE 0
    /\ Range(all_slash_commands) \subseteq AllCommands
    /\ Range(all_event_handlers) \subseteq AllHandlers
    /\ Count(all_slash_commands, PingCommand) = 1
    /\ Count(all_event_handlers, SlashReadyEvent) = 1

C11_Witness ==
    /\ Len(all_slash_commands) = 3
    /\ Len(all_event_handlers) = 2
    /\ Len(tasks) >= 1
    /\ tasks[1].pc = "done"

\* the next step of the handler call t, whichever it is
TaskStep(t) ==
    \/ BroadcastNext(t) \/ DefaultHook(t) \/ SyncSubmit(t)
    \/ PushOk(t) \/ PushErr(t)
    \/ InteractionNext(t) \/ Run(t) \/ Sent(t)

InProgress(T) == Len(T.calls) - T.ended

\* C13: within one ready or message event the hook at registry position
\* k+1 is invoked only after the hook at position k has returned, so at
\* most one hook of that event is in progress at any time.
C13_HooksRunOneAtATime ==
    \A t \in TaskIds :
        LET T == tasks[t] IN
        IsBroadcast(T)
            => /\ T.ended <= Len(T.calls)
               /\ InProgress(T) <= 1
               /\ \A k \in 1..Len(T.calls) : T.calls[k].pos > 1 =>
                      T.ended >= T.calls[k].pos - 1

C13_Witness ==
    \E t \in TaskIds :
        /\ IsBroadcast(tasks[t])
        /\ Len(tasks[t].calls) = 2
        /\ tasks[t].ended = 1
        /\ tasks[t].pc \in {"hook", "push"}

\* registry position of the handler that synchronises the commands
SyncPosition == CHOOSE k \in 1..Len(handlers) : handlers[k].sync

SendFailed(T) == \E k \in 1..Len(T.sent) : T.sent[k] = "err"

\* the step in which the create_response awaited by call t returns r
SendReturns(t, r) ==
    /\ t <= Len(tasks)
    /\ tasks[t].pc = "send"
    /\ tasks'[t].sent = Append(tasks[t].sent, r)

\* C15: when a matched command's run fails because its reply cannot be
\* sent, run returns to the scan as after a success (nothing is reported,
\* no other call is touched), the run is not repeated, the scan ends as
\* usual, and the gateway can still hand over further events.
C15_RunFailureContained ==
    /\ [][ \A t \in TaskIds :
             SendReturns(t, "err")
                 => /\ tasks'[t].pc = "loop"
                    /\ tasks'[t].i = tasks[t].i + 1
                    /\ tasks'[t].calls = tasks[t].calls
                    /\ tasks'[t].replies = tasks[t].replies
                    /\ tasks'[t].err = tasks[t].err
                    /\ \A u \in TaskIds : u # t => tasks'[u] = tasks[u] ]_vars
    /\ [](\A t \in TaskIds :
             LET T == tasks[t] IN
             SendFailed(T)
                 => /\ Len(T.replies) <= Len(T.calls)
                    /\ \A j, k \in 1..Len(T.calls) :
                           T.calls[j].pos = T.calls[k].pos => j = k
                    /\ T.pc = "done" =>
                           T.calls = CallsAt(Ascending(MatchPositions(T.name)), t)
                    /\ Len(tasks) < MaxEvents =>
                           \A e \in InteractionEvents : ENABLED Dispatch(e))

\* a ping whose reply could not be sent has been handled to the end, and an
\* interaction that arrived while no run was in progress has been answered
C15_Witness ==
    /\ Len(tasks) = 2
    /\ SendFailed(tasks[1]) /\ tasks[1].pc = "done"
    /\ ~tasks[2].busy
    /\ tasks[2].pc = "done" /\ tasks[2].sent = <<"ok">>

\* the hook of the handler at position k was invoked for call t and has
\* not returned
HookPending(t, k) ==
    /\ t <= Len(tasks)
    /\ IsBroadcast(tasks[t])
    /\ \E j \in 1..Len(tasks[t].calls) :
          tasks[t].calls[j].pos = k /\ tasks[t].ended < j

\* no hook of a handler after position k has been invoked for call t
NoneAfter(t, k) ==
    t <= Len(tasks) => \A j \in 1..Len(tasks[t].calls) : tasks[t].calls[j].pos <= k

\* C16: there is no timeout and no cancellation: if the hook at registry
\* position k stays pending forever for some event, no hook of a handler
\* after k is ever invoked for that event.
C16_PendingHookBlocksLaterHooks ==
    \A t \in 1..MaxEvents : \A k \in 1..Cardinality(AllHandlers) :
        <>[]HookPending(t, k) => []NoneAfter(t, k)

\* a push is awaited by the first of two handlers while another event has
\* been handled to the end
C16_Witness ==
    \E t \in TaskIds, u \in TaskIds :
        /\ HookPending(t, 1)
        /\ tasks[t].pc = "push"
        /\ Len(handlers) = 2
        /\ tasks[u].pc = "done"

\* what a handler call has done that can be observed from outside
Effects(T) == <<T.pushed, T.result, T.replies, T.sent, T.out, T.err>>

\* call t is inside a hook that its handler does not override
InDefaultHook(t) ==
    /\ tasks[t].pc = "hook"
    /\ ~(handlers[tasks[t].i].sync /\ tasks[t].kind = "ready")

\* C17: a hook that a handler does not override has no observable effect.
\* The step through such a hook changes neither the remote command set nor
\* anything the call has pushed, replied or printed; in particular a message
\* event, whose hook SlashReadyEvent does not override, never pushes, never
\* prints and never changes the remote command set.
C17_DefaultHooksDoNothing ==
    /\ [][ \A t \in TaskIds :
             /\ (InDefaultHook(t) /\ tasks'[t] # tasks[t])
                    => /\ remote' = remote
                       /\ Effects(tasks'[t]) = Effects(tasks[t])
                       /\ tasks'[t].pc = "loop"
             /\ (tasks[t].kind = "message" /\ tasks'[t] # tasks[t])
                    => remote' = remote ]_vars
    /\ [](\A t \in TaskIds :
             tasks[t].kind = "message"
                 => Effects(tasks[t]) = << <<>>, <<>>, <<>>, <<>>, 0, 0 >>)

\* a message event has gone through both handlers, the sync handler among
\* them, and the remote command set is still the stale one
C17_Witness ==
    \E t \in TaskIds :
        /\ tasks[t].kind = "message"
        /\ tasks[t].pc = "done"
        /\ Len(tasks[t].calls) = 2
        /\ remote = StaleRemote

\* C18: a command's run is invoked only by a command interaction carrying
\* exactly that command's name. Ready events, message events and other
\* interactions never enter a run or send a reply; handling an interaction
\* never enters a hook, never pushes, never prints and never changes the
\* remote command set.
C18_RunsOnlyForMatchingCommandInteractions ==
    /\ [](\A t \in TaskIds :
             LET T == tasks[t] IN
             /\ IsBroadcast(T)
                    => T.pc \notin {"run", "send"} /\ T.replies = <<>> /\ T.sent = <<>>
             /\ (T.kind = "interaction" /\ ~T.cmd)
                    => /\ T.calls = <<>> /\ T.replies = <<>> /\ T.sent = <<>>
                       /\ T.pc \in {"loop", "done"}
             /\ T.kind = "interaction"
                    => /\ T.pc \notin {"hook", "push"}
                       /\ T.pushed = <<>> /\ T.result = <<>>
                       /\ T.out = 0 /\ T.err = 0
             /\ IsCommandInteraction(T)
                    => \A k \in 1..Len(T.calls) :
                           commands[T.calls[k].pos].name = T.name)
    /\ [][ \A t \in TaskIds :
             (tasks[t].kind = "interaction" /\ tasks'[t] # tasks[t])
                 => remote' = remote ]_vars

\* a ping interaction has run ping and a ready event has pushed, an
\* interaction of another name having been possible all along
C18_Witness ==
    /\ Len(tasks) = 2
    /\ IsCommandInteraction(tasks[1]) /\ tasks[1].pc = "done"
    /\ Len(tasks[1].calls) = 1
    /\ tasks[2].kind = "ready" /\ tasks[2].pc = "done"
    /\ Len(tasks[2].pushed) = 1

\* C19: the push is made inside the ready broadcast, by the on_ready hook
\* of the one sync handler. For each ready event the hooks of the handlers
\* before it have been invoked and have returned when the push is submitted,
\* and the hook of a handler after it is invoked only when the push has
\* finished, with success or with failure.
C19_PushInsideReadyBroadcast ==
    \A t \in TaskIds :
        LET T == tasks[t] IN
        T.kind = "ready"
            => /\ T.pushed # <<>> =>
                      /\ T.ended >= SyncPosition - 1
                      /\ \A p \in 1..SyncPosition :
                             \E k \in 1..Len(T.calls) : T.calls[k].pos = p
               /\ T.pc = "push" =>
                      /\ T.i = SyncPosition
                      /\ T.calls[Len(T.calls)].pos = SyncPosition
               /\ \A k \in 1..Len(T.calls) :
                      T.calls[k].pos > SyncPosition =>
                          Len(T.pushed) = 1 /\ Len(T.result) = 1

\* with the sync handler first of two, one ready event has gone through
\* both hooks after its push finished while another still awaits its push
C19_Witness ==
    /\ Len(handlers) = 2 /\ SyncPosition = 1
    /\ \E t \in TaskIds :
          /\ tasks[t].kind = "ready" /\ tasks[t].pc = "done"
          /\ Len(tasks[t].calls) = 2 /\ Len(tasks[t].result) = 1
    /\ \E u \in TaskIds : tasks[u].kind = "ready" /\ tasks[u].pc = "push"
====
